---- MODULE Spec2Model ----
(***************************************************************************)
(* The WebSocket server facade FDwebbleWebSocketServerImpl                 *)
(* (Source/DwebbleWebSocket/WebSocketServer.cpp) together with a test      *)
(* double of the engine it drives through the dwebble_rws_* calls.  The    *)
(* engine is an external collaborator: every outcome it can report is a    *)
(* nondeterministic choice, and the double only records what it was asked. *)
(***************************************************************************)
EXTENDS Integers, Sequences, FiniteSets, TLC

(* ------------------------------ bounds -------------------------------- *)

\* engine create calls one behaviour may make (Start is the only caller)
MaxCreates == 2

\* events the engine enqueues in one behaviour
MaxEvents == 1

\* events the engine enqueues in one behaviour of the polling specification
MaxQueued == 2

(* --------------------------- program values --------------------------- *)

\* nullptr, the value of ServerHandle before any engine create succeeded
NULL == 0

\* the code the lossy TCHAR -> ANSICHAR conversion substitutes ('?')
BogusChar == 63

\* the highest code an ANSICHAR conversion keeps
MaxAnsi == 127

\* ',' the separator FString::Join is given
Comma == 44

\* the facade's result codes (EDwebbleWSResult)
EResult ==
  {"Ok", "InvalidHandle", "InvalidParam", "AlreadyRunning", "NotRunning",
   "BindFailed", "TlsError", "RuntimeError", "SendFailed", "ConnectionClosed"}

\* the engine's result values: the ten the facade's switch names, and one
\* value the switch does not name (the engine's result space may grow)
DwebbleWSResult == EResult \cup {"Unrecognised"}

\* the outcomes the engine double reports for send, send_text and
\* disconnect: success, a misuse code, the two operational failures and a
\* value outside the facade's switch
DataOutcomes ==
  {"Ok", "InvalidHandle", "SendFailed", "ConnectionClosed", "Unrecognised"}

\* the facade's event types (EDwebbleWSEventType)
EEventType ==
  {"None", "ClientConnected", "ClientDisconnected", "MessageReceived", "Error"}

\* the engine's event types, with one the facade's switch does not name
DwebbleWSEventType == EEventType \cup {"Unrecognised"}

\* handles the engine can hand out: addresses 1 .. MaxCreates
Handles == 1 .. MaxCreates

\* connection ids the host and the engine use
ConnectionIds == {5, 7}

\* the binary messages the host sends: <<connection id, bytes>>
Messages == {<<5, <<1, 2, 3>>>>, <<7, <<>>>>}

\* the text messages the host sends: <<connection id, text>>, "hi" and a
\* text with a character outside the ANSI range
TextMessages == {<<5, <<104, 105>>>>, <<7, <<104, 233>>>>}

\* ports the engine may report for a handle
EnginePorts == {0, 8080}

\* connection counts the engine may report
EngineCounts == {0, 2}

\* info strings the engine may return: a null pointer (<<>>) or a pointer
\* (<<s>>) to UTF-8 bytes; "1:8" and a two-byte encoded character
EngineInfos == {<<>>, << <<49, 58, 56>> >>, << <<195, 169>> >>}

(* ----------------------------- conversions ---------------------------- *)

\* StringCast<ANSICHAR>: every character outside the ANSI range becomes '?'
StringCastAnsi(Text) ==
  [i \in 1 .. Len(Text) |-> IF Text[i] > MaxAnsi THEN BogusChar ELSE Text[i]]

\* UTF8_TO_TCHAR on one- and two-byte sequences
RECURSIVE Utf8ToTchar(_)
Utf8ToTchar(Bytes) ==
  IF Bytes = <<>> THEN <<>>
  ELSE IF Bytes[1] < 128 THEN <<Bytes[1]>> \o Utf8ToTchar(Tail(Bytes))
  ELSE IF Bytes[1] >= 192 /\ Bytes[1] < 224 /\ Len(Bytes) >= 2
       THEN <<(Bytes[1] - 192) * 64 + (Bytes[2] - 128)>>
              \o Utf8ToTchar(Tail(Tail(Bytes)))
  ELSE <<BogusChar>> \o Utf8ToTchar(Tail(Bytes))

\* FString::Join(Parts, ",")
RECURSIVE Join(_)
Join(Parts) ==
  IF Parts = <<>> THEN <<>>
  ELSE IF Len(Parts) = 1 THEN Parts[1]
  ELSE Parts[1] \o <<Comma>> \o Join(Tail(Parts))

\* a ConvertResult whose switch has no default: a value it does not name
\* comes back as it is
ConvertResultNoDefault(Result) == Result

\* ConvertResult: the switch over the engine's result values
ConvertResult(Result) ==
  CASE Result = "Ok" -> "Ok"
    [] Result = "InvalidHandle" -> "InvalidHandle"
    [] Result = "InvalidParam" -> "InvalidParam"
    [] Result = "AlreadyRunning" -> "AlreadyRunning"
    [] Result = "NotRunning" -> "NotRunning"
    [] Result = "BindFailed" -> "BindFailed"
    [] Result = "TlsError" -> "TlsError"
    [] Result = "RuntimeError" -> "RuntimeError"
    [] Result = "SendFailed" -> "SendFailed"
    [] Result = "ConnectionClosed" -> "ConnectionClosed"
    [] OTHER -> "RuntimeError"

\* ConvertEventType: the switch over the engine's event types
ConvertEventType(Type) ==
  CASE Type = "None" -> "None"
    [] Type = "ClientConnected" -> "ClientConnected"
    [] Type = "ClientDisconnected" -> "ClientDisconnected"
    [] Type = "MessageReceived" -> "MessageReceived"
    [] Type = "Error" -> "Error"
    [] OTHER -> "None"

(* ------------------------------- state -------------------------------- *)

VARIABLES
  Config,        \* the facade's copy of the configuration (member Config)
  ServerHandle,  \* the engine handle the facade holds, NULL when none
  bIsRunning,    \* the facade's running flag
  alive,         \* TRUE until the facade object has been destructed
  engine,        \* the engine double: what the engine calls have done
  queue,         \* the engine's event queue of each handle
  enqueued,      \* events the engine has enqueued so far
  lastOp,        \* the most recent facade operation, its result and calls
  everStarted,   \* TRUE once the host has called Start
  InConfig,      \* the host's own configuration object, passed to Create
  configAtCreate, \* the value InConfig had when Create was called
  closedSeen     \* the connection ids PollEvent has reported disconnected

vars ==
  <<Config, ServerHandle, bIsRunning, alive, engine, queue, enqueued,
    lastOp, everStarted, InConfig, configAtCreate, closedSeen>>

(* --------------------------- configuration ---------------------------- *)

\* "127.0.0.1", the default of FDwebbleWSServerConfig::BindAddress
Loopback == <<49, 50, 55, 46, 48, 46, 48, 46, 49>>

\* the configuration the host passes to Create: port 8080 on the loopback
\* address, subprotocols "a" and "b", certificate "c" and key "k"
Configs ==
  {[Port |-> 8080, BindAddress |-> Loopback,
    Subprotocols |-> << <<97>>, <<98>> >>,
    TlsCertPath |-> <<99>>, TlsKeyPath |-> <<107>>]}

\* the subprotocol lists a host configures: none, "a", "a" and "b", and a
\* list whose one element is the empty text
SubprotocolLists == {<<>>, << <<97>> >>, << <<97>>, <<98>> >>, << <<>> >>}

\* the certificate paths a host configures: none, "c", and a path with a
\* character outside the ANSI range
CertPaths == {<<>>, <<99>>, <<99, 233>>}

\* the key paths a host configures: none and "k"
KeyPaths == {<<>>, <<107>>}

\* every configuration a host builds from these
HostConfigs ==
  {[Port |-> 8080, BindAddress |-> Loopback, Subprotocols |-> sp,
    TlsCertPath |-> cert, TlsKeyPath |-> key] :
     sp \in SubprotocolLists, cert \in CertPaths, key \in KeyPaths}

\* the ports a host configures (int32 Port): the ephemeral port, a usual
\* one, the highest 16-bit port, the first two multiples of 2^16 above it,
\* a port between them and a negative one
Ports == {0, 8080, 65535, 65536, 70000, 131072, -1}

\* plaintext configurations on the loopback address, one for each port
PortConfigs ==
  {[Port |-> port, BindAddress |-> Loopback, Subprotocols |-> <<>>,
    TlsCertPath |-> <<>>, TlsKeyPath |-> <<>>] : port \in Ports}

\* what the host makes of its configuration object after Create: another
\* port, one subprotocol "b", a key and no certificate
OtherConfig ==
  [Port |-> 9090, BindAddress |-> Loopback, Subprotocols |-> << <<98>> >>,
   TlsCertPath |-> <<>>, TlsKeyPath |-> <<107>>]

\* a nullable char pointer: <<>> is nullptr, <<s>> points at the text s
NullPtr == <<>>
PtrTo(Text) == <<Text>>

\* a translation that hands the port on as it is configured
FfiConfigPortWide(Cfg) ==
  [port |-> Cfg.Port,
   bind_address |-> PtrTo(StringCastAnsi(Cfg.BindAddress)),
   subprotocols |->
     IF Cfg.Subprotocols = <<>> THEN NullPtr
     ELSE PtrTo(StringCastAnsi(Join(Cfg.Subprotocols))),
   tls_cert_path |->
     IF Cfg.TlsCertPath = <<>> THEN NullPtr
     ELSE PtrTo(StringCastAnsi(Cfg.TlsCertPath)),
   tls_key_path |->
     IF Cfg.TlsKeyPath = <<>> THEN NullPtr
     ELSE PtrTo(StringCastAnsi(Cfg.TlsKeyPath))]

\* a translation that passes the certificate path without testing it for
\* emptiness
FfiConfigCertAlways(Cfg) ==
  [port |-> Cfg.Port % 65536,
   bind_address |-> PtrTo(StringCastAnsi(Cfg.BindAddress)),
   subprotocols |->
     IF Cfg.Subprotocols = <<>> THEN NullPtr
     ELSE PtrTo(StringCastAnsi(Join(Cfg.Subprotocols))),
   tls_cert_path |-> PtrTo(StringCastAnsi(Cfg.TlsCertPath)),
   tls_key_path |->
     IF Cfg.TlsKeyPath = <<>> THEN NullPtr
     ELSE PtrTo(StringCastAnsi(Cfg.TlsKeyPath))]

\* the DwebbleWSServerConfig that Start fills from Config
FfiConfig(Cfg) ==
  [port |-> Cfg.Port % 65536,
   bind_address |-> PtrTo(StringCastAnsi(Cfg.BindAddress)),
   subprotocols |->
     IF Cfg.Subprotocols = <<>> THEN NullPtr
     ELSE PtrTo(StringCastAnsi(Join(Cfg.Subprotocols))),
   tls_cert_path |->
     IF Cfg.TlsCertPath = <<>> THEN NullPtr
     ELSE PtrTo(StringCastAnsi(Cfg.TlsCertPath)),
   tls_key_path |->
     IF Cfg.TlsKeyPath = <<>> THEN NullPtr
     ELSE PtrTo(StringCastAnsi(Cfg.TlsKeyPath))]

(* --------------------------- the engine double ------------------------ *)

\* one engine call as the double records it: the function, the handle and
\* arguments it was given, and what it returned
Call(fn, h, out) ==
  [fn |-> fn, h |-> h, conn |-> 0, arg |-> <<>>, cfg |-> <<>>,
   out |-> out, num |-> 0, str |-> <<>>, ev |-> <<>>]

CreateCall(ffi, h) == [Call("create", h, "") EXCEPT !.cfg = <<ffi>>]
StartCall(h, Result) == Call("start", h, Result)
StopCall(h, Result) == Call("stop", h, Result)
DestroyCall(h) == Call("destroy", h, "")

\* a handle the engine created and has not destroyed
Live(E, h) == h \in Handles /\ E.hst[h] \in {"created", "running"}

\* the handle the next successful engine create returns
FreshHandle(E) == Cardinality({h \in Handles : E.hst[h] # "none"}) + 1

\* the double after one call: create hands out the handle, start and stop
\* move it between created and running when they report Ok, destroy ends it;
\* a call on a null or never created handle, or on a destroyed one, is noted,
\* and so is the handle of the latest start that reported Ok
ApplyCall(E, c) ==
  IF c.fn = "create"
    THEN [E EXCEPT !.createCalls = @ + 1,
                   !.hst = IF c.h = NULL THEN @
                           ELSE [@ EXCEPT ![c.h] = "created"]]
  ELSE IF c.fn = "free_string" THEN E
  ELSE IF c.h \notin Handles \/ E.hst[c.h] = "none"
    THEN [E EXCEPT !.nullCalls = TRUE]
  ELSE IF E.hst[c.h] = "destroyed"
    THEN [E EXCEPT !.staleCalls = TRUE,
                   !.destroyCalls[c.h] = IF c.fn = "destroy" THEN @ + 1 ELSE @]
  ELSE IF c.fn = "start"
    THEN [E EXCEPT !.hst[c.h] = IF c.out = "Ok" THEN "running" ELSE @,
                   !.startedOk = IF c.out = "Ok" THEN c.h ELSE @]
  ELSE IF c.fn = "stop"
    THEN [E EXCEPT !.hst[c.h] = IF c.out = "Ok" THEN "created" ELSE @]
  ELSE IF c.fn = "destroy"
    THEN [E EXCEPT !.hst[c.h] = "destroyed", !.destroyCalls[c.h] = @ + 1]
  ELSE E

\* the double after a sequence of calls, in order
RECURSIVE ApplyCalls(_, _)
ApplyCalls(E, calls) ==
  IF calls = <<>> THEN E
  ELSE ApplyCalls(ApplyCall(E, Head(calls)), Tail(calls))

(* --------------------------- facade operations ------------------------ *)

\* FEvent as default constructed
DefaultEvent ==
  [EventType |-> "None", ConnectionId |-> 0, Data |-> <<>>,
   ErrorMessage |-> <<>>]

\* an event object the host reuses: every field still holds an older event
StaleEvent ==
  [EventType |-> "Error", ConnectionId |-> 7, Data |-> <<9>>,
   ErrorMessage |-> <<120>>]

\* the event objects the host may hand to PollEvent
HostEvents == {DefaultEvent, StaleEvent}

\* the record of one facade operation: what it returned, the engine calls
\* it made, the handle and running flag it found, the caller's event
\* object before and after (PollEvent's OutEvent), the engine's queue as
\* PollEvent found it, and the host's configuration object as it was
Op(op, ret, calls, conn, arg) ==
  [op |-> op, ret |-> ret, calls |-> calls, conn |-> conn, arg |-> arg,
   preHandle |-> ServerHandle, preRunning |-> bIsRunning,
   preEvent |-> DefaultEvent, OutEvent |-> DefaultEvent, preQueue |-> <<>>,
   preSource |-> InConfig]

\* the state the constructor leaves: a copy of the host's configuration,
\* no handle, not running
InitFrom(Sources) ==
  /\ InConfig \in Sources
  /\ configAtCreate = InConfig
  /\ Config = InConfig
  /\ closedSeen = {}
  /\ ServerHandle = NULL
  /\ bIsRunning = FALSE
  /\ alive = TRUE
  /\ engine = [hst |-> [h \in Handles |-> "none"],
               destroyCalls |-> [h \in Handles |-> 0],
               createCalls |-> 0,
               nullCalls |-> FALSE,
               staleCalls |-> FALSE,
               startedOk |-> NULL]
  /\ queue = [h \in Handles |-> <<>>]
  /\ enqueued = 0
  /\ lastOp = Op("Create", "", <<>>, 0, <<>>)
  /\ everStarted = FALSE

Init == InitFrom(Configs)

\* a Start that never tests the running flag
StartRejectedNever == FALSE

\* Start's first test: already running
StartRejected == bIsRunning

\* a Start that also takes the engine's AlreadyRunning for a server it has
\* started
StartSetsRunningIfAlready(Result) == Result \in {"Ok", "AlreadyRunning"}

\* a Start that sets the running flag whatever the engine reports
StartSetsRunningAlways(Result) == TRUE

\* Start sets the running flag on this engine start outcome
StartSetsRunning(Result) == Result = "Ok"

\* a Start that never tests what the engine's create returned
CreateFailedNever(h) == FALSE

\* Start's test of the handle the engine's create returned
CreateFailed(h) == h = NULL

\* a Start that reads the host's configuration object, as a facade that
\* kept a reference to it would
StartConfigFromSource == InConfig

\* the configuration Start translates: the member Config
StartConfig == Config

\* Start
Start ==
  /\ alive
  /\ everStarted' = TRUE
  /\ UNCHANGED <<Config, alive, queue, enqueued, InConfig, configAtCreate,
                 closedSeen>>
  /\ \/ /\ StartRejected
        /\ lastOp' = Op("Start", "AlreadyRunning", <<>>, 0, <<>>)
        /\ UNCHANGED <<ServerHandle, bIsRunning, engine>>
     \/ /\ ~StartRejected
        /\ engine.createCalls < MaxCreates
        /\ \E h \in {NULL, FreshHandle(engine)} :
             LET create == CreateCall(FfiConfig(StartConfig), h) IN
             /\ ServerHandle' = h
             /\ IF CreateFailed(h)
                  THEN /\ lastOp' = Op("Start", "RuntimeError", <<create>>,
                                       0, <<>>)
                       /\ engine' = ApplyCalls(engine, <<create>>)
                       /\ UNCHANGED bIsRunning
                  ELSE \E Result \in DwebbleWSResult :
                         LET calls == <<create, StartCall(h, Result)>> IN
                         /\ bIsRunning' = IF StartSetsRunning(Result)
                                            THEN TRUE ELSE bIsRunning
                         /\ lastOp' = Op("Start", ConvertResult(Result),
                                         calls, 0, <<>>)
                         /\ engine' = ApplyCalls(engine, calls)

\* a Stop that tests the handle alone
StopRejectedNoHandleOnly == ServerHandle = NULL

\* Stop's first test: not running, or no handle
StopRejected == ~bIsRunning \/ ServerHandle = NULL

\* a Stop that clears the running flag only when the engine reports Ok
StopLeavesRunningOnFailure(Result) == Result # "Ok"

\* the running flag Stop leaves once it has called the engine
StopLeavesRunning(Result) == FALSE

\* the engine calls of Stop, given the outcome the engine reports
StopCalls(Result) ==
  IF StopRejected THEN <<>> ELSE <<StopCall(ServerHandle, Result)>>

\* what Stop returns
StopReturn(Result) ==
  IF StopRejected THEN "NotRunning" ELSE ConvertResult(Result)

\* the running flag after Stop
StopRunning(Result) ==
  IF StopRejected THEN bIsRunning ELSE StopLeavesRunning(Result)

\* Stop
Stop ==
  /\ alive
  /\ \E Result \in IF StopRejected THEN {"Ok"} ELSE DwebbleWSResult :
       /\ bIsRunning' = StopRunning(Result)
       /\ lastOp' = Op("Stop", StopReturn(Result), StopCalls(Result), 0, <<>>)
       /\ engine' = ApplyCalls(engine, StopCalls(Result))
  /\ UNCHANGED <<Config, ServerHandle, alive, queue, enqueued, everStarted,
                 InConfig, configAtCreate, closedSeen>>

\* a destructor that releases without testing the handle
DestructorReleasesAlways == TRUE

\* the destructor's test: a handle is held
DestructorReleases == ServerHandle # NULL

\* a destructor that releases the handle a second time
DestructorCallsDestroyTwice(Result) ==
  StopCalls(Result) \o <<DestroyCall(ServerHandle), DestroyCall(ServerHandle)>>

\* a destructor that destroys the handle before it stops the server
DestructorCallsDestroyFirst(Result) ==
  <<DestroyCall(ServerHandle)>> \o StopCalls(Result)

\* the engine calls of the destructor: Stop(), then destroy
DestructorCalls(Result) ==
  StopCalls(Result) \o <<DestroyCall(ServerHandle)>>

\* ~FDwebbleWebSocketServerImpl, run once when the last reference goes
Destroy ==
  /\ alive
  /\ alive' = FALSE
  /\ IF DestructorReleases
       THEN \E Result \in IF StopRejected THEN {"Ok"} ELSE DwebbleWSResult :
              /\ bIsRunning' = StopRunning(Result)
              /\ ServerHandle' = NULL
              /\ lastOp' = Op("Destroy", "", DestructorCalls(Result), 0, <<>>)
              /\ engine' = ApplyCalls(engine, DestructorCalls(Result))
       ELSE /\ lastOp' = Op("Destroy", "", <<>>, 0, <<>>)
            /\ UNCHANGED <<ServerHandle, bIsRunning, engine>>
  /\ UNCHANGED <<Config, queue, enqueued, everStarted, InConfig,
                 configAtCreate, closedSeen>>

\* queries and data operations that never test the handle
NoHandleNever == FALSE

\* the test every query and data operation starts with: no handle
NoHandle == ServerHandle = NULL

\* the largest int32
MaxInt32 == 2147483647

\* static_cast<int32> of an unsigned 32-bit count
ToInt32(n) == IF n <= MaxInt32 THEN n ELSE (n - MaxInt32) - MaxInt32 - 2

\* a Disconnect that takes the server for stopped once it has run
RecordStops(op) ==
  /\ lastOp' = op
  /\ engine' = ApplyCalls(engine, op.calls)
  /\ bIsRunning' = (bIsRunning /\ op.op # "Disconnect")
  /\ UNCHANGED <<Config, ServerHandle, alive, queue, enqueued, everStarted,
                 InConfig, configAtCreate, closedSeen>>

\* a query or data operation: it records itself and leaves the facade alone
Record(op) ==
  /\ lastOp' = op
  /\ engine' = ApplyCalls(engine, op.calls)
  /\ UNCHANGED <<Config, ServerHandle, bIsRunning, alive, queue, enqueued,
                 everStarted, InConfig, configAtCreate, closedSeen>>

\* IsRunning
IsRunning ==
  /\ alive
  /\ Record(Op("IsRunning", bIsRunning, <<>>, 0, <<>>))

\* GetPort
GetPort ==
  /\ alive
  /\ IF NoHandle THEN Record(Op("GetPort", 0, <<>>, 0, <<>>))
     ELSE \E port \in EnginePorts :
            Record(Op("GetPort", port,
                      <<[Call("get_port", ServerHandle, "") EXCEPT
                           !.num = port]>>, 0, <<>>))

\* GetConnectionCount
GetConnectionCount ==
  /\ alive
  /\ IF NoHandle THEN Record(Op("GetConnectionCount", 0, <<>>, 0, <<>>))
     ELSE \E count \in EngineCounts :
            Record(Op("GetConnectionCount", ToInt32(count),
                      <<[Call("get_connection_count", ServerHandle, "") EXCEPT
                           !.num = count]>>, 0, <<>>))

\* Info
Info ==
  /\ alive
  /\ IF NoHandle THEN Record(Op("Info", <<>>, <<>>, 0, <<>>))
     ELSE \E InfoStr \in EngineInfos :
            LET info == [Call("info", ServerHandle, "") EXCEPT !.str = InfoStr]
                free == [Call("free_string", NULL, "") EXCEPT !.str = InfoStr]
            IN IF InfoStr = NullPtr
                 THEN Record(Op("Info", <<>>, <<info>>, 0, <<>>))
                 ELSE Record(Op("Info", Utf8ToTchar(InfoStr[1]),
                                <<info, free>>, 0, <<>>))

\* a data operation that calls the engine a second time when the first
\* call reports a failure
EngineCallsRetried(call) ==
  IF call.out = "Ok" THEN <<call>> ELSE <<call, call>>

\* the engine calls of a data operation on a held handle
EngineCalls(call) == <<call>>

\* Send
Send ==
  /\ alive
  /\ \E Message \in Messages :
       LET ConnectionId == Message[1]
           Data == Message[2]
       IN
       IF NoHandle
         THEN Record(Op("Send", "InvalidHandle", <<>>, ConnectionId, Data))
         ELSE \E Result \in DataOutcomes :
                Record(Op("Send", ConvertResult(Result),
                          EngineCalls(
                            [Call("send", ServerHandle, Result) EXCEPT
                               !.conn = ConnectionId, !.arg = Data]),
                          ConnectionId, Data))

\* SendText
SendText ==
  /\ alive
  /\ \E Message \in TextMessages :
       LET ConnectionId == Message[1]
           Text == Message[2]
       IN
       IF NoHandle
         THEN Record(Op("SendText", "InvalidHandle", <<>>, ConnectionId, Text))
         ELSE \E Result \in DataOutcomes :
                Record(Op("SendText", ConvertResult(Result),
                          EngineCalls(
                            [Call("send_text", ServerHandle, Result) EXCEPT
                               !.conn = ConnectionId,
                               !.arg = StringCastAnsi(Text)]),
                          ConnectionId, Text))

\* Disconnect
Disconnect ==
  /\ alive
  /\ \E ConnectionId \in ConnectionIds :
       IF NoHandle
         THEN Record(Op("Disconnect", "InvalidHandle", <<>>, ConnectionId,
                        <<>>))
         ELSE \E Result \in DataOutcomes :
                Record(Op("Disconnect", ConvertResult(Result),
                          EngineCalls(
                            [Call("disconnect", ServerHandle, Result) EXCEPT
                               !.conn = ConnectionId]),
                          ConnectionId, <<>>))

\* the events the engine may enqueue (DwebbleWSEvent)
EngineEvent(type, id, data, msg) ==
  [event_type |-> type, connection_id |-> id, data |-> data,
   data_len |-> IF data = NullPtr THEN 0 ELSE Len(data[1]),
   error_message |-> msg]

EngineEvents ==
  {EngineEvent("MessageReceived", 5, PtrTo(<<1, 2, 3>>), NullPtr),
   EngineEvent("MessageReceived", 5, PtrTo(<<>>), NullPtr),
   EngineEvent("ClientDisconnected", 5, NullPtr, NullPtr),
   EngineEvent("Error", 0, NullPtr, PtrTo(<<101>>))}

\* a PollEvent that leaves Data alone when the engine's event has no bytes
MarshalKeepsData(Out, Event) ==
  [Out EXCEPT
     !.EventType = ConvertEventType(Event.event_type),
     !.ConnectionId = Event.connection_id,
     !.Data = IF Event.data # NullPtr /\ Event.data_len > 0
                THEN SubSeq(Event.data[1], 1, Event.data_len) ELSE @,
     !.ErrorMessage = IF Event.error_message # NullPtr
                        THEN Utf8ToTchar(Event.error_message[1]) ELSE <<>>]

\* the caller's event after PollEvent has copied the engine's event to it
Marshal(Out, Event) ==
  [Out EXCEPT
     !.EventType = ConvertEventType(Event.event_type),
     !.ConnectionId = Event.connection_id,
     !.Data = IF Event.data # NullPtr /\ Event.data_len > 0
                THEN SubSeq(Event.data[1], 1, Event.data_len) ELSE <<>>,
     !.ErrorMessage = IF Event.error_message # NullPtr
                        THEN Utf8ToTchar(Event.error_message[1]) ELSE <<>>]

\* the engine's queue behind a handle; nothing is queued behind a handle
\* the engine never created
QueueOf(h) == IF h \in Handles THEN queue[h] ELSE <<>>

\* a PollEvent that polls the engine again when more is queued, and so
\* passes over an event
PollsTwice(q) == IF Len(q) >= 2 THEN 2 ELSE 1

\* the engine polls one PollEvent makes
Polls(q) == 1

\* the engine's poll on a handle whose queue is q: it fills Event with the
\* oldest queued event and returns true, or returns false
PollCall(h, q) ==
  IF q = <<>> THEN Call("poll", h, "false")
  ELSE [Call("poll", h, "true") EXCEPT !.ev = <<Head(q)>>]

\* a PollEvent that takes an event without payload bytes for no event
PollYieldsData(poll) == poll.out = "true" /\ poll.ev[1].data_len > 0

\* PollEvent's test of what the engine's poll returned
PollYields(poll) == poll.out = "true"

\* the connection ids reported disconnected once the host has this event
Seen(ids, Event) ==
  IF Event.EventType = "ClientDisconnected"
    THEN ids \cup {Event.ConnectionId} ELSE ids

\* PollEvent, on an event object of the host's
PollEvent ==
  /\ alive
  /\ UNCHANGED <<Config, ServerHandle, bIsRunning, alive, enqueued,
                 everStarted, InConfig, configAtCreate>>
  /\ \E Out \in HostEvents :
       LET q == QueueOf(ServerHandle)
           polled(ret, calls, after) ==
             [Op("PollEvent", ret, calls, 0, <<>>) EXCEPT
                !.preEvent = Out, !.OutEvent = after, !.preQueue = q]
       IN
       IF NoHandle
         THEN /\ lastOp' = polled(FALSE, <<>>, Out)
              /\ UNCHANGED <<engine, queue, closedSeen>>
         ELSE LET calls == [i \in 1 .. Polls(q) |->
                              PollCall(ServerHandle, SubSeq(q, i, Len(q)))]
                  poll == calls[Len(calls)]
              IN /\ engine' = ApplyCalls(engine, calls)
                 /\ IF ~PollYields(poll)
                      THEN /\ lastOp' = polled(FALSE, calls, Out)
                           /\ UNCHANGED <<queue, closedSeen>>
                      ELSE LET after == Marshal(Out, poll.ev[1]) IN
                           /\ lastOp' = polled(TRUE, calls, after)
                           /\ closedSeen' = Seen(closedSeen, after)
                           /\ queue' =
                                [queue EXCEPT ![ServerHandle] =
                                   SubSeq(q, Len(calls) + 1, Len(q))]

\* the engine, on its own threads, enqueues an event for a running server,
\* up to a number of events in one behaviour
EnqueueWithin(bound) ==
  /\ enqueued < bound
  /\ \E h \in Handles, Event \in EngineEvents :
       /\ engine.hst[h] = "running"
       /\ queue' = [queue EXCEPT ![h] = Append(@, Event)]
  /\ enqueued' = enqueued + 1
  /\ UNCHANGED <<Config, ServerHandle, bIsRunning, alive, engine, lastOp,
                 everStarted, InConfig, configAtCreate, closedSeen>>

Enqueue == EnqueueWithin(MaxEvents)

Next ==
  \/ Start
  \/ Stop
  \/ Destroy
  \/ IsRunning
  \/ GetPort
  \/ GetConnectionCount
  \/ Info
  \/ Send
  \/ SendText
  \/ Disconnect
  \/ PollEvent
  \/ Enqueue

Spec == Init /\ [][Next]_vars

\* the engine enqueuing for a host that only starts, stops and polls
EnqueueBurst == EnqueueWithin(MaxQueued)

\* the facade under a host that starts, stops and drains events
PollNext ==
  \/ Start
  \/ Stop
  \/ PollEvent
  \/ EnqueueBurst

PollSpec == Init /\ [][PollNext]_vars

\* the host changes its own configuration object after Create
HostMutates ==
  /\ InConfig # OtherConfig
  /\ InConfig' = OtherConfig
  /\ UNCHANGED <<Config, ServerHandle, bIsRunning, alive, engine, queue,
                 enqueued, lastOp, everStarted, configAtCreate, closedSeen>>

\* the facade created from any of the host's configurations, under a host
\* that starts and stops it, changes its configuration object and lets the
\* facade go
ConfigNext ==
  \/ Start
  \/ Stop
  \/ Destroy
  \/ HostMutates

ConfigSpec == InitFrom(HostConfigs) /\ [][ConfigNext]_vars

\* the same host with a configuration for each of the ports
PortSpec == InitFrom(PortConfigs) /\ [][ConfigNext]_vars

(* ------------------------------- claims ------------------------------- *)

\* the engine calls of one kind among the calls of an operation
CallsOf(fn, calls) == SelectSeq(calls, LAMBDA c : c.fn = fn)

\* the handles the engine has created and not destroyed
LiveHandles == {h \in Handles : Live(engine, h)}

\* the handles the engine has ever created
CreatedHandles == {h \in Handles : engine.hst[h] # "none"}

\* C1: once the facade has been destroyed, every handle the engine created
\* for it has been passed to the engine's destroy exactly once: none is
\* leaked and none is released twice.
C1_EveryHandleReleasedOnce ==
  ~alive => \A h \in CreatedHandles : engine.destroyCalls[h] = 1

\* C2: at most one handle created for the facade is live at any time, the
\* handle is still held and live once the facade is stopped, and a Start
\* issued while a handle is held (from Stopped, or after a Start that
\* failed) makes no engine create call.
C2_OneHandleForLife ==
  /\ Cardinality(LiveHandles) <= 1
  /\ (lastOp.op = "Stop" /\ lastOp.preRunning) =>
       (ServerHandle = lastOp.preHandle /\ ServerHandle \in LiveHandles)
  /\ (lastOp.op = "Start" /\ lastOp.preHandle # NULL) =>
       CallsOf("create", lastOp.calls) = <<>>

\* C3: a Start that finds the facade running returns AlreadyRunning, leaves
\* the running flag true and the handle as it was, and makes no engine call
\* (no create, no start).
C3_StartWhileRunning ==
  (lastOp.op = "Start" /\ lastOp.preRunning) =>
    /\ lastOp.ret = "AlreadyRunning"
    /\ bIsRunning
    /\ ServerHandle = lastOp.preHandle
    /\ lastOp.calls = <<>>

C3_Witness ==
  /\ lastOp.op = "Start"
  /\ lastOp.preRunning
  /\ lastOp.ret = "AlreadyRunning"

\* C4: a Start that finds the facade not running and reaches the engine's
\* start returns Ok and leaves the facade running when the engine reports
\* Ok; on every other outcome the facade is left not running and Start
\* returns the code of the same name.  The facade only ever becomes running
\* by a Start that returned Ok.
C4_StartOutcome ==
  /\ (lastOp.op = "Start" /\ ~lastOp.preRunning
        /\ CallsOf("start", lastOp.calls) # <<>>) =>
       LET out == CallsOf("start", lastOp.calls)[1].out IN
       /\ Len(CallsOf("start", lastOp.calls)) = 1
       /\ out = "Ok" => (lastOp.ret = "Ok" /\ bIsRunning)
       /\ out # "Ok" => (~bIsRunning /\ lastOp.ret # "Ok")
       /\ out \in EResult => lastOp.ret = out
  /\ (bIsRunning /\ ~lastOp.preRunning) =>
       (lastOp.op = "Start" /\ lastOp.ret = "Ok")

C4_Witness ==
  /\ lastOp.op = "Start"
  /\ ~lastOp.preRunning
  /\ CallsOf("start", lastOp.calls) # <<>>
  /\ CallsOf("start", lastOp.calls)[1].out = "BindFailed"
  /\ lastOp.ret = "BindFailed"
  /\ ~bIsRunning

\* C5: a Stop that finds the facade running leaves it not running whatever
\* the engine's stop reports, returns the code the engine's outcome maps to,
\* and still holds the handle.
C5_StopWhileRunning ==
  (lastOp.op = "Stop" /\ lastOp.preRunning) =>
    /\ ~bIsRunning
    /\ Len(lastOp.calls) = 1
    /\ lastOp.calls[1].fn = "stop"
    /\ lastOp.calls[1].h = lastOp.preHandle
    /\ lastOp.calls[1].out \in EResult => lastOp.ret = lastOp.calls[1].out
    /\ lastOp.calls[1].out \notin EResult => lastOp.ret = "RuntimeError"
    /\ ServerHandle = lastOp.preHandle
    /\ ServerHandle # NULL

C5_Witness ==
  /\ lastOp.op = "Stop"
  /\ lastOp.preRunning
  /\ lastOp.calls # <<>>
  /\ lastOp.calls[1].out = "RuntimeError"
  /\ ~bIsRunning

\* C6: a Stop that finds the facade not running, or without a handle,
\* returns NotRunning, makes no engine call and leaves the running flag and
\* the handle as they were; so does a Stop right after Create, and a second
\* Stop in a row.
C6_StopWhenNotRunning ==
  (lastOp.op = "Stop" /\ (~lastOp.preRunning \/ lastOp.preHandle = NULL)) =>
    /\ lastOp.ret = "NotRunning"
    /\ lastOp.calls = <<>>
    /\ bIsRunning = lastOp.preRunning
    /\ ServerHandle = lastOp.preHandle

C6_Witness ==
  /\ lastOp.op = "Stop"
  /\ ~lastOp.preRunning
  /\ lastOp.preHandle # NULL
  /\ lastOp.ret = "NotRunning"

\* C7: the destructor of a facade that holds a handle calls the engine's
\* stop on it exactly when the facade was running, then the engine's destroy
\* on it exactly once, in that order and nothing else; the engine gets no
\* call on a handle it has destroyed.
C7_DestructorOrder ==
  /\ (lastOp.op = "Destroy" /\ lastOp.preHandle # NULL) =>
       /\ Len(lastOp.calls) = IF lastOp.preRunning THEN 2 ELSE 1
       /\ lastOp.preRunning => lastOp.calls[1].fn = "stop"
       /\ lastOp.calls[Len(lastOp.calls)].fn = "destroy"
       /\ \A i \in 1 .. Len(lastOp.calls) :
            lastOp.calls[i].h = lastOp.preHandle
       /\ engine.destroyCalls[lastOp.preHandle] = 1
  /\ ~engine.staleCalls

C7_Witness ==
  /\ lastOp.op = "Destroy"
  /\ lastOp.preRunning
  /\ Len(lastOp.calls) = 2
  /\ ~alive

C9_NoHandle ==
  /\ ServerHandle = NULL => ~bIsRunning
  /\ lastOp.preHandle = NULL =>
       /\ lastOp.op \in {"Send", "SendText", "Disconnect"} =>
            (lastOp.ret = "InvalidHandle" /\ lastOp.calls = <<>>)
       /\ lastOp.op \in {"GetPort", "GetConnectionCount"} =>
            (lastOp.ret = 0 /\ lastOp.calls = <<>>)
       /\ lastOp.op = "Info" => (lastOp.ret = <<>> /\ lastOp.calls = <<>>)
       /\ lastOp.op = "PollEvent" =>
            (lastOp.ret = FALSE /\ lastOp.calls = <<>>)
       /\ lastOp.op = "IsRunning" =>
            (lastOp.ret = FALSE /\ lastOp.calls = <<>>)
       /\ lastOp.op = "Destroy" => lastOp.calls = <<>>

C9_Witness ==
  /\ lastOp.op = "PollEvent"
  /\ lastOp.preHandle = NULL
  /\ ~everStarted
  /\ lastOp.ret = FALSE

BytesOf(Event) ==
  IF Event.data = NullPtr THEN <<>>
  ELSE SubSeq(Event.data[1], 1, Event.data_len)

\* seq p is how seq q begins
IsPrefix(p, q) == Len(p) <= Len(q) /\ SubSeq(q, 1, Len(p)) = p

\* C11: PollEvent on a held handle makes one engine poll and, when events
\* are queued, returns the one the engine enqueued first, with its type,
\* connection id and payload bytes, and leaves the events queued behind it
\* queued in their order: successive polls return events in enqueue order,
\* one per call, so a ClientDisconnected is never observed before a
\* MessageReceived queued ahead of it.
C11_EventsInOrder ==
  (lastOp.op = "PollEvent" /\ lastOp.preHandle # NULL) =>
    LET q == lastOp.preQueue IN
    /\ Len(lastOp.calls) = 1
    /\ lastOp.ret = (q # <<>>)
    /\ q # <<>> =>
         /\ Head(q).event_type \in EEventType =>
              lastOp.OutEvent.EventType = Head(q).event_type
         /\ lastOp.OutEvent.ConnectionId = Head(q).connection_id
         /\ lastOp.OutEvent.Data = BytesOf(Head(q))
         /\ IsPrefix(Tail(q), queue[lastOp.preHandle])

\* MessageReceived(5, [1,2,3]) then ClientDisconnected(5) were queued, and
\* a PollEvent has returned the message and left the disconnect queued
C11_Witness ==
  /\ lastOp.op = "PollEvent"
  /\ lastOp.ret = TRUE
  /\ Len(lastOp.preQueue) = 2
  /\ lastOp.preQueue[1].event_type = "MessageReceived"
  /\ lastOp.preQueue[2].event_type = "ClientDisconnected"
  /\ lastOp.OutEvent.EventType = "MessageReceived"
  /\ lastOp.OutEvent.ConnectionId = 5
  /\ lastOp.OutEvent.Data = <<1, 2, 3>>
  /\ queue[lastOp.preHandle] = <<lastOp.preQueue[2]>>

\* the operations that return a result code
ResultOps == {"Start", "Stop", "Send", "SendText", "Disconnect"}

\* the engine calls that return a result value
ResultCalls == {"start", "stop", "send", "send_text", "disconnect"}

\* C12: whatever result value the engine returns to an operation, the
\* operation returns one of the ten facade codes: the code of the same name
\* for each of the ten values the mapping recognises, and RuntimeError for
\* a value it does not recognise.
C12_ResultMapping ==
  (/\ lastOp.op \in ResultOps
   /\ lastOp.calls # <<>>
   /\ lastOp.calls[Len(lastOp.calls)].fn \in ResultCalls) =>
    LET out == lastOp.calls[Len(lastOp.calls)].out IN
    /\ lastOp.ret \in EResult
    /\ out \in EResult => lastOp.ret = out
    /\ out \notin EResult => lastOp.ret = "RuntimeError"

\* the engine's stop returned a value the mapping does not recognise
C12_Witness ==
  /\ lastOp.op = "Stop"
  /\ lastOp.calls # <<>>
  /\ lastOp.calls[1].out = "Unrecognised"
  /\ lastOp.ret = "RuntimeError"

\* the result codes that name a misuse by the caller
MisuseCodes == {"InvalidHandle", "InvalidParam", "AlreadyRunning", "NotRunning"}

\* C13: an operation that returns InvalidHandle, InvalidParam,
\* AlreadyRunning or NotRunning has made no engine call.
C13_MisuseDetectedLocally ==
  (lastOp.op \in ResultOps /\ lastOp.ret \in MisuseCodes) =>
    lastOp.calls = <<>>

\* the operations that address one connection
DataOps == {"Send", "SendText", "Disconnect"}

\* C14: once PollEvent has reported ClientDisconnected for a connection
\* id, every Send, SendText and Disconnect with that id returns
\* ConnectionClosed or InvalidHandle.
C14_ClosedIdRejected ==
  (lastOp.op \in DataOps /\ lastOp.conn \in closedSeen) =>
    lastOp.ret \in {"ConnectionClosed", "InvalidHandle"}

\* exactly one of the certificate and key paths is set
OneSidedTls(Cfg) == (Cfg.TlsCertPath = <<>>) # (Cfg.TlsKeyPath = <<>>)

\* C15: with exactly one of the certificate and key paths set, Start
\* returns TlsError or InvalidParam and leaves the facade not running.
C15_OneSidedTlsRejected ==
  (lastOp.op = "Start" /\ OneSidedTls(configAtCreate)) =>
    /\ lastOp.ret \in {"TlsError", "InvalidParam"}
    /\ ~bIsRunning

\* where element i of a comma joined list begins in the joined text
RECURSIVE Offset(_, _)
Offset(Parts, i) ==
  IF i = 1 THEN 1 ELSE Offset(Parts, i - 1) + Len(Parts[i - 1]) + 1

\* Text is the elements of Parts in their order with one comma between
\* each two
IsCommaJoined(Text, Parts) ==
  /\ Len(Text) = Offset(Parts, Len(Parts)) + Len(Parts[Len(Parts)]) - 1
  /\ \A i \in 1 .. Len(Parts) :
       /\ \A j \in 1 .. Len(Parts[i]) :
            Text[Offset(Parts, i) + j - 1] = Parts[i][j]
       /\ i > 1 => Text[Offset(Parts, i) - 1] = Comma

\* Ptr points at a text as long as Path that agrees with it on every
\* character of the ANSI range
IsPresent(Ptr, Path) ==
  /\ Ptr # NullPtr
  /\ Len(Ptr[1]) = Len(Path)
  /\ \A i \in 1 .. Len(Path) : Path[i] <= MaxAnsi => Ptr[1][i] = Path[i]

\* C16: the configuration the engine's create is given has a null
\* subprotocol pointer for an empty list and otherwise the elements joined
\* by commas in list order; a null certificate path for an empty path and
\* otherwise the path; and the same for the key path, whatever the other
\* fields hold.
C16_ConfigTranslation ==
  (lastOp.op = "Start" /\ lastOp.calls # <<>>) =>
    LET ffi == lastOp.calls[1].cfg[1] IN
    /\ lastOp.calls[1].fn = "create"
    /\ Config.Subprotocols = <<>> => ffi.subprotocols = NullPtr
    /\ Config.Subprotocols # <<>> =>
         /\ ffi.subprotocols # NullPtr
         /\ IsCommaJoined(ffi.subprotocols[1], Config.Subprotocols)
    /\ Config.TlsCertPath = <<>> => ffi.tls_cert_path = NullPtr
    /\ Config.TlsCertPath # <<>> =>
         IsPresent(ffi.tls_cert_path, Config.TlsCertPath)
    /\ Config.TlsKeyPath = <<>> => ffi.tls_key_path = NullPtr
    /\ Config.TlsKeyPath # <<>> =>
         IsPresent(ffi.tls_key_path, Config.TlsKeyPath)

\* a Start has translated a configuration with two subprotocols, no
\* certificate and a key
C16_Witness ==
  /\ lastOp.op = "Start"
  /\ lastOp.calls # <<>>
  /\ Len(Config.Subprotocols) = 2
  /\ Config.TlsCertPath = <<>>
  /\ Config.TlsKeyPath # <<>>
  /\ lastOp.calls[1].cfg[1].subprotocols = PtrTo(<<97, 44, 98>>)
  /\ lastOp.calls[1].cfg[1].tls_cert_path = NullPtr
  /\ lastOp.calls[1].cfg[1].tls_key_path = PtrTo(<<107>>)

\* C17: the facade's configuration is the value the host's configuration
\* had at Create, whatever the host does to its own object afterwards and
\* whatever operations have run, and every Start translates that value.
C17_ConfigCaptured ==
  /\ Config = configAtCreate
  /\ (lastOp.op = "Start" /\ lastOp.calls # <<>>) =>
       lastOp.calls[1].cfg = <<FfiConfig(configAtCreate)>>

\* a second Start, after a Stop, that ran once the host had changed its
\* configuration object
C17_Witness ==
  /\ lastOp.op = "Start"
  /\ lastOp.calls # <<>>
  /\ lastOp.preHandle # NULL
  /\ lastOp.preSource # configAtCreate
  /\ lastOp.preSource = InConfig

\* C18: a queued MessageReceived without payload bytes is returned by
\* PollEvent as an event (true, MessageReceived, no data, its connection
\* id), and PollEvent returns false only when no handle is held or the
\* engine's queue is empty.
C18_EmptyMessageDelivered ==
  lastOp.op = "PollEvent" =>
    /\ (/\ lastOp.preQueue # <<>>
        /\ Head(lastOp.preQueue).event_type = "MessageReceived"
        /\ Head(lastOp.preQueue).data_len = 0) =>
         /\ lastOp.ret = TRUE
         /\ lastOp.OutEvent.EventType = "MessageReceived"
         /\ lastOp.OutEvent.Data = <<>>
         /\ lastOp.OutEvent.ConnectionId =
              Head(lastOp.preQueue).connection_id
    /\ lastOp.ret = FALSE =>
         (lastOp.preHandle = NULL \/ lastOp.preQueue = <<>>)

\* a MessageReceived without payload bytes was polled into an event object
\* that still held older data
C18_Witness ==
  /\ lastOp.op = "PollEvent"
  /\ lastOp.ret = TRUE
  /\ lastOp.preQueue # <<>>
  /\ Head(lastOp.preQueue).event_type = "MessageReceived"
  /\ Head(lastOp.preQueue).data_len = 0
  /\ lastOp.preEvent = StaleEvent
  /\ lastOp.OutEvent.Data = <<>>

\* the engine call each data operation stands for
EngineFn(op) ==
  CASE op = "Send" -> "send"
    [] op = "SendText" -> "send_text"
    [] op = "Disconnect" -> "disconnect"

\* C19: with a handle held, a Send, SendText or Disconnect makes one engine
\* call, the one it stands for, on the held handle with the caller's
\* connection id (and Send with the caller's bytes), and returns the code
\* named as the engine's outcome; a failure is not tried again.
C19_OneCallPassedThrough ==
  (lastOp.op \in DataOps /\ lastOp.preHandle # NULL) =>
    /\ Len(lastOp.calls) = 1
    /\ lastOp.calls[1].fn = EngineFn(lastOp.op)
    /\ lastOp.calls[1].h = lastOp.preHandle
    /\ lastOp.calls[1].conn = lastOp.conn
    /\ lastOp.op = "Send" => lastOp.calls[1].arg = lastOp.arg
    /\ lastOp.calls[1].out \in EResult => lastOp.ret = lastOp.calls[1].out

\* a Send on connection 5 that the engine failed
C19_Witness ==
  /\ lastOp.op = "Send"
  /\ lastOp.preHandle # NULL
  /\ lastOp.conn = 5
  /\ lastOp.calls # <<>>
  /\ lastOp.calls[1].out = "SendFailed"
  /\ lastOp.ret = "SendFailed"

\* the calls among those of an operation that hand a buffer back to the
\* engine for release
Releases(calls, buf) ==
  SelectSeq(calls, LAMBDA c : c.fn = "free_string" /\ c.str = buf)

\* C20: an Info that got a string from the engine has released it once
\* before returning, and a PollEvent that returned an event has released
\* once each buffer the engine's event carried, its message bytes and its
\* error text.
C20_TransientsReleased ==
  /\ (lastOp.op = "Info" /\ lastOp.calls # <<>>
        /\ lastOp.calls[1].str # NullPtr) =>
       Len(Releases(lastOp.calls, lastOp.calls[1].str)) = 1
  /\ (lastOp.op = "PollEvent" /\ lastOp.ret = TRUE) =>
       LET Event == lastOp.calls[Len(lastOp.calls)].ev[1] IN
       /\ Event.data # NullPtr =>
            Len(Releases(lastOp.calls, Event.data)) = 1
       /\ Event.error_message # NullPtr =>
            Len(Releases(lastOp.calls, Event.error_message)) = 1

\* the queries, the data operations and the poll
FrameOps ==
  {"IsRunning", "GetPort", "GetConnectionCount", "Info", "Send", "SendText",
   "Disconnect", "PollEvent"}

\* C21: IsRunning, GetPort, GetConnectionCount, Info, Send, SendText,
\* Disconnect and PollEvent leave the running flag, the held handle and the
\* captured configuration as they found them.
C21_QueriesKeepLifecycle ==
  lastOp.op \in FrameOps =>
    /\ bIsRunning = lastOp.preRunning
    /\ ServerHandle = lastOp.preHandle
    /\ Config = configAtCreate

\* a Disconnect on a running facade that the engine failed
C21_Witness ==
  /\ lastOp.op = "Disconnect"
  /\ lastOp.preRunning
  /\ lastOp.ret = "ConnectionClosed"
  /\ bIsRunning
  /\ ServerHandle # NULL

\* C22: while the facade reports itself running it holds a handle, and
\* that handle is the one on which the engine's latest start that reported
\* Ok was called.
C22_RunningHoldsStartedHandle ==
  bIsRunning =>
    /\ ServerHandle # NULL
    /\ ServerHandle = engine.startedOk

\* running on a second handle: the first was started, stopped and replaced
C22_Witness ==
  /\ bIsRunning
  /\ ServerHandle = 2
  /\ engine.startedOk = 2
  /\ engine.hst[1] # "none"

\* the engine calls that take a handle
HandleCalls ==
  {"start", "stop", "get_port", "get_connection_count", "info", "send",
   "send_text", "disconnect", "poll", "destroy"}

\* C23: the engine has never been called with a null handle or with a
\* handle it had already destroyed, and every call of the latest operation
\* that takes a handle was given one the engine created.
C23_NoNullOrStaleHandle ==
  /\ ~engine.nullCalls
  /\ ~engine.staleCalls
  /\ \A i \in 1 .. Len(lastOp.calls) :
       lastOp.calls[i].fn \in HandleCalls =>
         /\ lastOp.calls[i].h # NULL
         /\ lastOp.calls[i].h \in CreatedHandles

\* after an engine create that failed the facade was destroyed without an
\* engine call
C23_Witness ==
  /\ ~alive
  /\ lastOp.op = "Destroy"
  /\ lastOp.preHandle = NULL
  /\ lastOp.calls = <<>>
  /\ engine.createCalls > 0

\* the handles behind which the engine holds events not yet polled
Pending == {h \in Handles : queue[h] # <<>>}

\* C24: every event the engine enqueues for the facade is returned by some
\* PollEvent of a host that keeps polling, also across Stop followed by
\* Start.  PollEvent polls the held handle alone and Start only ever takes
\* a handle the engine has just created, so an event is still deliverable
\* only while it is queued behind the held handle: while the facade lives,
\* no event is queued behind any other handle.
C24_EveryEventDelivered ==
  alive => \A h \in Pending : h = ServerHandle

\* Text is the ASCII bytes of an engine text, character for character
IsTextOf(Text, Ptr) ==
  /\ Len(Text) = Len(Ptr[1])
  /\ \A i \in 1 .. Len(Text) : Ptr[1][i] <= MaxAnsi /\ Text[i] = Ptr[1][i]

\* C25: a PollEvent that returned true has set all four fields of the
\* caller's event from the engine's event: the type, the connection id,
\* the bytes (none when the engine's event has none) and the error text
\* (none when the engine's event has none), whatever the object held
\* before; a PollEvent that returned false has left the object as it was.
C25_EventOverwritten ==
  lastOp.op = "PollEvent" =>
    /\ lastOp.ret = FALSE => lastOp.OutEvent = lastOp.preEvent
    /\ lastOp.ret = TRUE =>
         LET Event == lastOp.calls[Len(lastOp.calls)].ev[1] IN
         /\ Event.event_type \in EEventType =>
              lastOp.OutEvent.EventType = Event.event_type
         /\ lastOp.OutEvent.ConnectionId = Event.connection_id
         /\ lastOp.OutEvent.Data = BytesOf(Event)
         /\ Event.error_message = NullPtr =>
              lastOp.OutEvent.ErrorMessage = <<>>
         /\ Event.error_message # NullPtr =>
              IsTextOf(lastOp.OutEvent.ErrorMessage, Event.error_message)

\* a ClientDisconnected, with no bytes and no error text, was polled into an
\* event object that held an older Error event
C25_Witness ==
  /\ lastOp.op = "PollEvent"
  /\ lastOp.ret = TRUE
  /\ lastOp.preEvent = StaleEvent
  /\ lastOp.OutEvent =
       [EventType |-> "ClientDisconnected", ConnectionId |-> 5,
        Data |-> <<>>, ErrorMessage |-> <<>>]

\* the ports of the 16-bit range
Ports16 == 0 .. 65535

\* n is a whole multiple of 2^16
IsMultipleOf65536(n) == \E k \in -2 .. 2 : n = k * 65536

\* C26 as stated: the engine is given the configured port narrowed to 16
\* bits, which is the configured port itself for every port in 0..65535,
\* and it is given port 0, the request for an ephemeral port, only when
\* the configured port is 0.
C26_EphemeralOnlyForZero ==
  (lastOp.op = "Start" /\ lastOp.calls # <<>>) =>
    LET port == lastOp.calls[1].cfg[1].port IN
    /\ port \in Ports16
    /\ IsMultipleOf65536(Config.Port - port)
    /\ Config.Port \in Ports16 => port = Config.Port
    /\ port = 0 => Config.Port = 0

\* C26 as amended: the engine is given the configured port narrowed to 16
\* bits, which is the configured port itself for every port in 0..65535,
\* and it is given port 0 exactly when the configured port is a multiple
\* of 2^16: for 0, and also for 65536 and 131072.
C26_PortNarrowed ==
  (lastOp.op = "Start" /\ lastOp.calls # <<>>) =>
    LET port == lastOp.calls[1].cfg[1].port IN
    /\ port \in Ports16
    /\ IsMultipleOf65536(Config.Port - port)
    /\ Config.Port \in Ports16 => port = Config.Port
    /\ port = 0 <=> IsMultipleOf65536(Config.Port)

\* a Start with port 65536 configured has asked the engine for port 0
C26_Witness ==
  /\ lastOp.op = "Start"
  /\ lastOp.calls # <<>>
  /\ Config.Port = 65536
  /\ lastOp.calls[1].cfg[1].port = 0

====
